---- MODULE Spec2Model ----
(***************************************************************************)
(* SubmissionValidator (tests/test_submission_validator.py): validation of *)
(* a ';'-delimited submission file against a reference (test) file.        *)
(*                                                                         *)
(* Text is modelled as sequences of one-character strings, a file as a     *)
(* sequence of lines, a parsed table as a sequence of rows of stripped     *)
(* cells.  One run of run_all_validations is a sequence of steps, one per  *)
(* block of the method.                                                    *)
(***************************************************************************)
EXTENDS Integers, Sequences, FiniteSets, TLC

VARIABLES
    submission_path,   \* self.submission_path: None or a path
    sub_exists,        \* the submission path names an existing file
    sub_readable,      \* open()/decode of the submission file succeeds
    sub_file,          \* lines of the submission file
    test_exists,       \* self.test_path.exists()
    test_readable,     \* open()/decode of the test file succeeds
    test_file,         \* lines of the test file
    pc,                \* position inside run_all_validations
    results,           \* the local list `results`
    submission_data,   \* local: parsed submission table
    test_data,         \* local: parsed test table
    submission_rows,   \* local: submission_data[1:]
    test_uids,         \* local: set of first cells of test_data[1:]
    submission_uids,   \* local: uids seen so far
    i,                 \* loop variable of enumerate(submission_rows, start=2)
    exc                \* the exception in flight / raised ("" when none)

vars == <<submission_path, sub_exists, sub_readable, sub_file, test_exists,
          test_readable, test_file, pc, results, submission_data, test_data,
          submission_rows, test_uids, submission_uids, i, exc>>

fsvars == <<submission_path, sub_exists, sub_readable, sub_file, test_exists,
            test_readable, test_file>>

----------------------------------------------------------------------------
(* Bounds of the explored inputs *)

MaxSubRows == 3
MaxTestRows == 2
MaxSubRowsCov == 1
MaxPoolUids == 7

----------------------------------------------------------------------------
(* Text *)

\* code points of the characters used, as Python compares str
Ord(c) ==
    CASE c = " " -> 32
      [] c = "/" -> 47
      [] c = "0" -> 48
      [] c = "1" -> 49
      [] c = "2" -> 50
      [] c = "3" -> 51
      [] c = "4" -> 52
      [] c = "5" -> 53
      [] c = "9" -> 57
      [] c = ";" -> 59
      [] c = "A" -> 65
      [] c = "C" -> 67
      [] c = "D" -> 68
      [] c = "E" -> 69
      [] c = "F" -> 70
      [] c = "G" -> 71
      [] c = "H" -> 72
      [] c = "I" -> 73
      [] c = "L" -> 76
      [] c = "N" -> 78
      [] c = "O" -> 79
      [] c = "P" -> 80
      [] c = "S" -> 83
      [] c = "T" -> 84
      [] c = "U" -> 85
      [] c = "a" -> 97
      [] c = "q" -> 113

S_GET == <<"G", "E", "T">>
S_POST == <<"P", "O", "S", "T">>
S_PUT == <<"P", "U", "T">>
S_DELETE == <<"D", "E", "L", "E", "T", "E">>
S_PATCH == <<"P", "A", "T", "C", "H">>
S_HEAD == <<"H", "E", "A", "D">>
S_OPTIONS == <<"O", "P", "T", "I", "O", "N", "S">>
S_FETCH == <<"F", "E", "T", "C", "H">>

\* the method set with one token left out
valid_methods_NoPut == {S_GET, S_POST, S_DELETE, S_PATCH, S_HEAD, S_OPTIONS}

\* self.valid_methods
valid_methods == {S_GET, S_POST, S_PUT, S_DELETE, S_PATCH, S_HEAD, S_OPTIONS}

\* str.strip(): leading and trailing whitespace removed
RECURSIVE LStrip(_)
LStrip(s) ==
    IF s = <<>> THEN s
    ELSE IF Head(s) = " " THEN LStrip(Tail(s)) ELSE s

RECURSIVE RStrip(_)
RStrip(s) ==
    IF s = <<>> THEN s
    ELSE IF s[Len(s)] = " " THEN RStrip(SubSeq(s, 1, Len(s) - 1)) ELSE s

Strip(s) == RStrip(LStrip(s))

\* csv.reader(f, delimiter=";") on one line: fields between delimiters; an
\* empty line yields a row without cells
RECURSIVE SplitAcc(_, _)
SplitAcc(line, cur) ==
    IF line = <<>> THEN <<cur>>
    ELSE IF Head(line) = ";"
         THEN <<cur>> \o SplitAcc(Tail(line), <<>>)
         ELSE SplitAcc(Tail(line), Append(cur, Head(line)))

SplitLine(line) == IF line = <<>> THEN <<>> ELSE SplitAcc(line, <<>>)

\* _read_csv on a readable file: every line split, every cell stripped
ReadCsv(file) ==
    [k \in 1..Len(file) |->
        [c \in 1..Len(SplitLine(file[k])) |-> Strip(SplitLine(file[k])[c])]]

\* str.startswith("/")
StartsWithSlash(s) == Len(s) > 0 /\ s[1] = "/"

\* s < t as Python compares str: by code point, a proper prefix first
RECURSIVE StrLess(_, _)
StrLess(s, t) ==
    IF t = <<>> THEN FALSE
    ELSE IF s = <<>> THEN TRUE
    ELSE IF Head(s) # Head(t) THEN Ord(Head(s)) < Ord(Head(t))
    ELSE StrLess(Tail(s), Tail(t))

\* sorted(uids)
RECURSIVE SortedSeq(_)
SortedSeq(U) ==
    IF U = {} THEN <<>>
    ELSE LET m == CHOOSE x \in U : \A y \in U \ {x} : StrLess(x, y)
         IN <<m>> \o SortedSeq(U \ {m})

\* seq[:5]
FirstFive(seq) == SubSeq(seq, 1, IF Len(seq) < 5 THEN Len(seq) ELSE 5)

----------------------------------------------------------------------------
(* Check results: the tuples (name, passed, detail) appended to `results`. *)
(* A name is the check and the row number its text carries (0 when the     *)
(* text carries none); detail is None or the content of the message.       *)

None == [kind |-> "None"]

CheckName(check, row) == [check |-> check, row |-> row]

\* a passing result carrying an empty message instead of None
Passed_EmptyText(name) ==
    [name |-> name, passed |-> TRUE, detail |-> [kind |-> "str", msg |-> ""]]

\* (name, True, None)
Passed(name) == [name |-> name, passed |-> TRUE, detail |-> None]

\* (name, False, "<message>")
Failed(name, detail) == [name |-> name, passed |-> FALSE, detail |-> detail]

\* f"Файл {path} не найден"
NotFoundMsg(path) == [kind |-> "str", msg |-> "not found", path |-> path]

\* the two structure messages
StructureMsg(text) == [kind |-> "str", msg |-> text]

\* f"Строка {i}: ..." messages of the per-row checks
RowMsg(text, row, arg, list) ==
    [kind |-> "str", msg |-> text, row |-> row, arg |-> arg, list |-> list]

\* f"... ожидается {len(test_uids)}, найдено {len(submission_rows)}"
CountMsg(expected, found) ==
    [kind |-> "str", msg |-> "row count", expected |-> expected, found |-> found]

\* the listing with the ellipsis from five uids on
UidListing_Ge5(text, uids) ==
    [kind |-> "str", msg |-> text, list |-> FirstFive(SortedSeq(uids)),
     ellipsis |-> Cardinality(uids) >= 5]

\* f"{', '.join(sorted(uids)[:5])}{'...' if len(uids) > 5 else ''}"
UidListing(text, uids) ==
    [kind |-> "str", msg |-> text, list |-> FirstFive(SortedSeq(uids)),
     ellipsis |-> Cardinality(uids) > 5]

\* f"Ошибка при обработке файлов: {str(e)}"
ProcessingMsg(e) == [kind |-> "str", msg |-> "processing error", error |-> e]

----------------------------------------------------------------------------
(* The checks of run_all_validations *)

\* the width check over the data rows only
AllWidth3_SkipHeader(data) == \A k \in 2..Len(data) : Len(data[k]) = 3

\* all(len(row) == 3 for row in submission_data)
AllWidth3(data) == \A k \in 1..Len(data) : Len(data[k]) = 3

\* test_data[1:] holds a row without cells: row[0] raises IndexError
TestUidsRaises(data) == \E k \in 2..Len(data) : Len(data[k]) = 0

\* {row[0] for row in test_data[1:]}
TestUidsOf(data) == {data[k][1] : k \in 2..Len(data)}

\* the emptiness check on the uid only
HasEmptyValue_UidOnly(row) == row[1] = <<>>

\* not uid or not method or not request
HasEmptyValue(row) == row[1] = <<>> \/ row[2] = <<>> \/ row[3] = <<>>

\* the membership test made after the uid was added
IsDuplicate_AfterAdd(uid, seen) == uid \in seen \cup {uid}

\* uid in submission_uids
IsDuplicate(uid, seen) == uid \in seen

\* the loop body with the path check ahead of the method check
RowResults_PathBeforeMethod(row, n, seen) ==
    IF Len(row) # 3 THEN <<>>
    ELSE IF row[1] = <<>> \/ row[2] = <<>> \/ row[3] = <<>>
    THEN <<Failed(CheckName("empty_values", n),
                  RowMsg("empty values", n, <<>>, <<>>))>>
    ELSE (IF row[1] \in seen
          THEN <<Failed(CheckName("uniqueness", n),
                        RowMsg("duplicate uid", n, row[1], <<>>))>>
          ELSE <<>>)
      \o (IF ~StartsWithSlash(row[3])
          THEN <<Failed(CheckName("path", n),
                        RowMsg("invalid path", n, row[3], <<>>))>>
          ELSE <<>>)
      \o (IF row[2] \notin valid_methods
          THEN <<Failed(CheckName("method", n),
                        RowMsg("invalid method", n, row[2],
                               SortedSeq(valid_methods)))>>
          ELSE <<>>)

\* the results one pass of the loop body appends for `row` numbered n
RowResults(row, n, seen) ==
    IF Len(row) # 3 THEN <<>>
    ELSE IF HasEmptyValue(row)
    THEN <<Failed(CheckName("empty_values", n),
                  RowMsg("empty values", n, <<>>, <<>>))>>
    ELSE (IF IsDuplicate(row[1], seen)
          THEN <<Failed(CheckName("uniqueness", n),
                        RowMsg("duplicate uid", n, row[1], <<>>))>>
          ELSE <<>>)
      \o (IF row[2] \notin valid_methods
          THEN <<Failed(CheckName("method", n),
                        RowMsg("invalid method", n, row[2],
                               SortedSeq(valid_methods)))>>
          ELSE <<>>)
      \o (IF ~StartsWithSlash(row[3])
          THEN <<Failed(CheckName("path", n),
                        RowMsg("invalid path", n, row[3], <<>>))>>
          ELSE <<>>)

\* submission_uids after one pass of the loop body
SeenAfter(row, seen) ==
    IF Len(row) # 3 \/ HasEmptyValue(row) THEN seen ELSE seen \cup {row[1]}

\* the count of distinct submission uids compared instead of the rows
RowCountResult_DistinctUids(rows, tuids) ==
    IF Cardinality({rows[k][1] : k \in 1..Len(rows)}) # Cardinality(tuids)
    THEN Failed(CheckName("row_count", 0),
                CountMsg(Cardinality(tuids),
                         Cardinality({rows[k][1] : k \in 1..Len(rows)})))
    ELSE Passed(CheckName("row_count", 0))

\* len(submission_rows) != len(test_uids)
RowCountResult(rows, tuids) ==
    IF Len(rows) # Cardinality(tuids)
    THEN Failed(CheckName("row_count", 0),
                CountMsg(Cardinality(tuids), Len(rows)))
    ELSE Passed(CheckName("row_count", 0))

\* missing_uids = test_uids - submission_uids
MissingUids(tuids, suids) == tuids \ suids

CoverageResult(tuids, suids) ==
    IF MissingUids(tuids, suids) # {}
    THEN Failed(CheckName("coverage", 0),
                UidListing("missing uids", MissingUids(tuids, suids)))
    ELSE Passed(CheckName("coverage", 0))

\* extra_uids = submission_uids - test_uids
ExtraUids(tuids, suids) == suids \ tuids

ExtrasResult(tuids, suids) ==
    IF ExtraUids(tuids, suids) # {}
    THEN Failed(CheckName("extras", 0),
                UidListing("extra uids", ExtraUids(tuids, suids)))
    ELSE Passed(CheckName("extras", 0))

----------------------------------------------------------------------------
(* Explored inputs *)

SEMI == <<";">>

Line2(a, b) == a \o SEMI \o b
Line3(a, b, c) == a \o SEMI \o b \o SEMI \o c

\* all sequences over S of length at most n
RECURSIVE SeqsUpTo(_, _)
SeqsUpTo(S, n) ==
    IF n = 0 THEN {<<>>}
    ELSE LET shorter == SeqsUpTo(S, n - 1)
         IN shorter \cup {Append(q, x) : q \in {r \in shorter : Len(r) = n - 1}, x \in S}

SubHeader == Line3(<<"a">>, <<"a">>, <<"a">>)
SubHeaderShort == Line2(<<"a">>, <<"a">>)
TestHeader == Line2(<<"a">>, <<"q">>)

\* data lines of submission files, of three cells
SubLines ==
    { Line3(<<" ", "1">>, S_GET, <<" ", "/", "a", " ">>),
      Line3(<<"2">>, S_PUT, <<"/">>),
      Line3(<<"1">>, S_FETCH, <<"a">>),
      Line3(<<"1">>, <<>>, <<"/", "a">>),
      Line3(<<" ">>, S_GET, <<"/", "a">>) }

\* lines of another width: two cells, and the empty line
SubLinesOtherWidth == { Line2(<<"1">>, S_GET), <<>> }

\* data lines of test files
TestLines ==
    { Line2(<<"1">>, <<"q">>),
      <<" ", "2">>,
      Line2(<<>>, <<"q">>),
      <<>> }

SubFiles ==
    {<<>>}
    \cup {<<SubHeaderShort>> \o r : r \in SeqsUpTo(SubLines, 1)}
    \cup {<<SubHeader>> \o r : r \in SeqsUpTo(SubLines, MaxSubRows)}
    \cup {<<SubHeader>> \o Append(r, b) :
            r \in SeqsUpTo(SubLines, MaxSubRows - 1), b \in SubLinesOtherWidth}
    \cup {<<SubHeader, b>> \o r :
            r \in SeqsUpTo(SubLines, MaxSubRows - 1), b \in SubLinesOtherWidth}

TestFiles ==
    {<<>>} \cup {<<TestHeader>> \o r : r \in SeqsUpTo(TestLines, MaxTestRows)}

\* long reference lists: every subset of a pool of uids, in pool order
PoolSeq ==
    << <<"9">>, <<"1", "0">>, <<"3">>, <<"1">>, <<"5">>, <<"2">>, <<"4">>,
       <<"9", "5">>, <<"3", "0">> >>

RECURSIVE PoolLines(_, _)
PoolLines(U, k) ==
    IF k > Len(PoolSeq) \/ k > MaxPoolUids THEN <<>>
    ELSE (IF PoolSeq[k] \in U THEN <<Line2(PoolSeq[k], <<"q">>)>> ELSE <<>>)
         \o PoolLines(U, k + 1)

PoolUids == {PoolSeq[k] : k \in {j \in 1..Len(PoolSeq) : j <= MaxPoolUids}}

TestFilesCov ==
    {<<>>, <<TestHeader, <<>> >>}
    \cup {<<TestHeader>> \o PoolLines(U, 1) : U \in SUBSET PoolUids}

SubLinesCov ==
    { Line3(<<"1">>, S_GET, <<"/", "a">>),
      Line3(<<"1", "0">>, S_GET, <<"/", "a">>),
      Line3(<<"5">>, S_FETCH, <<"/", "a">>),
      Line2(<<"1">>, S_GET) }

SubFilesCov ==
    {<<>>} \cup {<<SubHeader>> \o r : r \in SeqsUpTo(SubLinesCov, MaxSubRowsCov)}

SubmissionPath == "submission.csv"
TestPath == "test.csv"

----------------------------------------------------------------------------
(* The state after SubmissionValidator(test_path, submission_path), with   *)
(* the files found on disk, and before run_all_validations                 *)

InitWith(subFiles, testFiles) ==
    /\ submission_path \in {"None", SubmissionPath}
    /\ sub_exists \in BOOLEAN
    /\ submission_path = "None" => ~sub_exists
    /\ sub_readable \in BOOLEAN
    /\ sub_readable => sub_exists
    /\ sub_file \in (IF sub_readable THEN subFiles ELSE {<<>>})
    /\ test_exists \in BOOLEAN
    /\ test_readable \in BOOLEAN
    /\ test_readable => test_exists
    /\ test_file \in (IF test_readable THEN testFiles ELSE {<<>>})
    /\ pc = "start"
    /\ results = <<>>
    /\ submission_data = <<>>
    /\ test_data = <<>>
    /\ submission_rows = <<>>
    /\ test_uids = {}
    /\ submission_uids = {}
    /\ i = 2
    /\ exc = ""

Init == InitWith(SubFiles, TestFiles)

InitCov == InitWith(SubFilesCov, TestFilesCov)

----------------------------------------------------------------------------
(* run_all_validations, block by block *)

localvars == <<submission_data, test_data, submission_rows, test_uids,
               submission_uids, i>>

\* lines 56-69: `self.submission_path.exists()`; None has no such attribute
\* and the call is outside the try block
CheckSubmissionFile ==
    /\ pc = "start"
    /\ IF submission_path = "None"
       THEN /\ pc' = "raised"
            /\ exc' = "AttributeError"
            /\ UNCHANGED results
       ELSE IF ~sub_exists
       THEN /\ results' = Append(results,
                  Failed(CheckName("submission_exists", 0),
                         NotFoundMsg(submission_path)))
            /\ pc' = "returned"
            /\ UNCHANGED exc
       ELSE /\ results' = Append(results, Passed(CheckName("submission_exists", 0)))
            /\ pc' = "check_test"
            /\ UNCHANGED exc
    /\ UNCHANGED <<fsvars, localvars>>

\* lines 71-82
CheckTestFile ==
    /\ pc = "check_test"
    /\ IF ~test_exists
       THEN /\ results' = Append(results,
                  Failed(CheckName("test_exists", 0), NotFoundMsg(TestPath)))
            /\ pc' = "returned"
       ELSE /\ results' = Append(results, Passed(CheckName("test_exists", 0)))
            /\ pc' = "read"
    /\ UNCHANGED <<fsvars, localvars, exc>>

\* lines 86-87 with _read_csv (210-229): the first failing read raises
ReadFiles ==
    /\ pc = "read"
    /\ IF ~sub_readable
       THEN /\ pc' = "except"
            /\ exc' = "read submission"
            /\ UNCHANGED <<submission_data, test_data>>
       ELSE IF ~test_readable
       THEN /\ pc' = "except"
            /\ exc' = "read test"
            /\ submission_data' = ReadCsv(sub_file)
            /\ UNCHANGED test_data
       ELSE /\ pc' = "structure"
            /\ submission_data' = ReadCsv(sub_file)
            /\ test_data' = ReadCsv(test_file)
            /\ UNCHANGED exc
    /\ UNCHANGED <<fsvars, results, submission_rows, test_uids, submission_uids, i>>

\* lines 89-106
CheckStructure ==
    /\ pc = "structure"
    /\ IF Len(submission_data) = 0
       THEN /\ results' = Append(results,
                  Failed(CheckName("structure", 0), StructureMsg("empty file")))
            /\ pc' = "returned"
       ELSE IF ~AllWidth3(submission_data)
       THEN /\ results' = Append(results,
                  Failed(CheckName("structure", 0),
                         StructureMsg("expected 3 columns (uid;type;request)")))
            /\ pc' = "returned"
       ELSE /\ results' = Append(results, Passed(CheckName("structure", 0)))
            /\ pc' = "extract"
    /\ UNCHANGED <<fsvars, localvars, exc>>

\* lines 108-112
ExtractData ==
    /\ pc = "extract"
    /\ submission_rows' = Tail(submission_data)
    /\ IF TestUidsRaises(test_data)
       THEN /\ pc' = "except"
            /\ exc' = "IndexError"
            /\ UNCHANGED <<test_uids, submission_uids, i>>
       ELSE /\ test_uids' = TestUidsOf(test_data)
            /\ submission_uids' = {}
            /\ i' = 2
            /\ pc' = "rows"
            /\ UNCHANGED exc
    /\ UNCHANGED <<fsvars, results, submission_data, test_data>>

\* lines 113-159: one pass of the loop body, for row number i
ValidateRow ==
    /\ pc = "rows"
    /\ i - 1 <= Len(submission_rows)
    /\ results' = results \o RowResults(submission_rows[i - 1], i, submission_uids)
    /\ submission_uids' = SeenAfter(submission_rows[i - 1], submission_uids)
    /\ i' = i + 1
    /\ UNCHANGED <<fsvars, pc, submission_data, test_data, submission_rows,
                   test_uids, exc>>

\* lines 161-171, once the loop is exhausted
CheckRowCount ==
    /\ pc = "rows"
    /\ i - 1 > Len(submission_rows)
    /\ results' = Append(results, RowCountResult(submission_rows, test_uids))
    /\ pc' = "coverage"
    /\ UNCHANGED <<fsvars, localvars, exc>>

\* lines 173-184
CheckCoverage ==
    /\ pc = "coverage"
    /\ results' = Append(results, CoverageResult(test_uids, submission_uids))
    /\ pc' = "extras"
    /\ UNCHANGED <<fsvars, localvars, exc>>

\* lines 186-197 and the return of line 208
CheckExtras ==
    /\ pc = "extras"
    /\ results' = Append(results, ExtrasResult(test_uids, submission_uids))
    /\ pc' = "returned"
    /\ UNCHANGED <<fsvars, localvars, exc>>

\* lines 199-208: except Exception as e
HandleException ==
    /\ pc = "except"
    /\ results' = Append(results,
          Failed(CheckName("processing", 0), ProcessingMsg(exc)))
    /\ pc' = "returned"
    /\ UNCHANGED <<fsvars, localvars, exc>>

Next ==
    \/ CheckSubmissionFile
    \/ CheckTestFile
    \/ ReadFiles
    \/ CheckStructure
    \/ ExtractData
    \/ ValidateRow
    \/ CheckRowCount
    \/ CheckCoverage
    \/ CheckExtras
    \/ HandleException

Spec == Init /\ [][Next]_vars

SpecCov == InitCov /\ [][Next]_vars

TypeOK ==
    /\ pc \in {"start", "check_test", "read", "structure", "extract", "rows",
               "coverage", "extras", "except", "returned", "raised"}
    /\ \A k \in 1..Len(results) : results[k].passed \in BOOLEAN

----------------------------------------------------------------------------
(* Vocabulary of the properties *)

\* the seven HTTP method tokens of the specification's ValidMethodSet
ValidMethodSet ==
    { <<"G", "E", "T">>, <<"P", "O", "S", "T">>, <<"P", "U", "T">>,
      <<"D", "E", "L", "E", "T", "E">>, <<"P", "A", "T", "C", "H">>,
      <<"H", "E", "A", "D">>, <<"O", "P", "T", "I", "O", "N", "S">> }

PerRowChecks == {"empty_values", "uniqueness", "method", "path"}
AggregateChecks == {"row_count", "coverage", "extras"}

\* positions of the results of one check / of one check for one row
ResultsOf(check) == {k \in 1..Len(results) : results[k].name.check = check}
ResultsAt(check, row) ==
    {k \in ResultsOf(check) : results[k].name.row = row}
ResultsForRow(row) ==
    {k \in 1..Len(results) :
        results[k].name.check \in PerRowChecks /\ results[k].name.row = row}

\* number of cells of a line of a file: 0 for an empty line
LineWidth(line) ==
    IF line = <<>> THEN 0
    ELSE 1 + Cardinality({k \in 1..Len(line) : line[k] = ";"})

FilesReadable ==
    /\ submission_path # "None"
    /\ sub_exists /\ sub_readable /\ test_exists /\ test_readable

StructurePassed ==
    \E k \in ResultsOf("structure") : results[k].passed

\* the run has executed the row-count check
AggregatesReached == ResultsOf("row_count") # {}

\* number of submission data rows the loop has gone through
Processed ==
    IF pc = "rows" THEN i - 2
    ELSE IF AggregatesReached THEN Len(submission_rows)
    ELSE 0

\* data row k of the submission (row number k + 1) has three non-empty fields
Complete(k) ==
    /\ Len(submission_rows[k]) = 3
    /\ \A c \in 1..3 : submission_rows[k][c] # <<>>

CompleteUids ==
    {submission_rows[k][1] : k \in {j \in 1..Len(submission_rows) : Complete(j)}}

\* first cells of the reference data rows
ReferenceUids ==
    {test_data[k][1] : k \in {j \in 2..Len(test_data) : Len(test_data[j]) > 0}}

ReferenceRowsHaveCells == \A k \in 2..Len(test_data) : Len(test_data[k]) > 0

----------------------------------------------------------------------------
(* C1: run_all_validations always returns a sequence and never raises to   *)
(* its caller, for every configuration of the validator.                   *)
C1_NeverRaises == pc # "raised"

(* C2: whenever the submission file is absent (path configured but file    *)
(* missing, or path omitted), the run returns exactly one result, failing, *)
(* of the submission-existence check.                                      *)
C2_AbsentSubmissionOneFailure ==
    (pc \in {"returned", "raised"} /\ (submission_path = "None" \/ ~sub_exists))
    => /\ pc = "returned"
       /\ Len(results) = 1
       /\ ~results[1].passed
       /\ results[1].name.check = "submission_exists"

(* C3: with both files present and readable and a submission table that is *)
(* empty or holds a row (header included) of width other than 3, the       *)
(* returned sequence holds exactly one structure result, failing and last, *)
(* and no per-row and no aggregate result.                                 *)
C3_StructureFailureShortCircuits ==
    (/\ pc = "returned"
     /\ FilesReadable
     /\ \/ Len(sub_file) = 0
        \/ \E k \in 1..Len(sub_file) : LineWidth(sub_file[k]) # 3)
    => /\ Cardinality(ResultsOf("structure")) = 1
       /\ results[Len(results)].name.check = "structure"
       /\ ~results[Len(results)].passed
       /\ \A k \in 1..Len(results) :
            results[k].name.check \notin PerRowChecks \cup AggregateChecks

C3_Witness ==
    /\ pc = "returned"
    /\ FilesReadable
    /\ Len(sub_file) = 4
    /\ LineWidth(sub_file[1]) = 3
    /\ LineWidth(sub_file[2]) = 3 /\ submission_data[2][2] \notin ValidMethodSet
    /\ submission_data[3] = submission_data[2]
    /\ LineWidth(sub_file[4]) = 2
    /\ results[Len(results)].name.check = "structure"


\* the inputs C4 calls valid
ValidInput ==
    /\ FilesReadable
    /\ Len(sub_file) > 0
    /\ \A k \in 1..Len(sub_file) : LineWidth(sub_file[k]) = 3
    /\ \A u \in ReferenceUids :
         Cardinality({k \in 2..Len(submission_data) : submission_data[k][1] = u}) = 1
    /\ \A k \in 2..Len(submission_data) :
         /\ submission_data[k][2] \in ValidMethodSet
         /\ Len(submission_data[k][3]) > 0 /\ submission_data[k][3][1] = "/"

AllPassed == \A k \in 1..Len(results) : results[k].passed

MissingFromSubmission == ReferenceUids \ CompleteUids

(* C6: in every run that reaches the aggregate checks the coverage check   *)
(* fails exactly when a reference uid is not among the collected           *)
(* submission uids; its detail lists the min(5, n) smallest of the n       *)
(* missing uids in ascending order, with the ellipsis exactly when n > 5.  *)
C6_CoverageListing ==
    \A r \in ResultsOf("coverage") :
      LET M == MissingFromSubmission
          n == Cardinality(M)
          d == results[r].detail
      IN /\ results[r].passed <=> (M = {})
         /\ ~results[r].passed =>
              /\ Len(d.list) = (IF n < 5 THEN n ELSE 5)
              /\ \A k \in 1..Len(d.list) : d.list[k] \in M
              /\ \A k \in 1..(Len(d.list) - 1) : StrLess(d.list[k], d.list[k + 1])
              /\ \A u \in M :
                   (\A k \in 1..Len(d.list) : d.list[k] # u)
                   => \A k \in 1..Len(d.list) : StrLess(d.list[k], u)
              /\ d.ellipsis <=> (n > 5)

C6_Witness ==
    /\ pc = "returned"
    /\ \E r \in ResultsOf("coverage") :
         /\ ~results[r].passed
         /\ results[r].detail.ellipsis
         /\ Len(results[r].detail.list) = 5
         /\ results[r].detail.list[1] = <<"1", "0">>
         /\ results[r].detail.list[2] = <<"2">>
    /\ Cardinality(MissingFromSubmission) = 6
    /\ <<"1">> \in CompleteUids

(* C7: in every run that reaches the aggregate checks the row-count check  *)
(* passes exactly when the number of submission data rows equals the       *)
(* number of distinct first cells of the reference data rows; otherwise it *)
(* fails reporting the reference count as expected, the submission count   *)
(* as found.                                                               *)
C7_RowCount ==
    \A r \in ResultsOf("row_count") :
      LET found == Len(sub_file) - 1
          expected == Cardinality(ReferenceUids)
      IN /\ results[r].passed <=> (found = expected)
         /\ ~results[r].passed =>
              /\ results[r].detail.expected = expected
              /\ results[r].detail.found = found

C7_Witness ==
    /\ pc = "returned"
    /\ AggregatesReached
    /\ Len(sub_file) = 4
    /\ ~Complete(1)
    /\ Complete(2) /\ Complete(3)
    /\ submission_rows[2][1] = submission_rows[3][1]
    /\ Len(test_data) = 3
    /\ \E r \in ResultsOf("row_count") :
         /\ ~results[r].passed
         /\ results[r].detail.expected = 2
         /\ results[r].detail.found = 3

(* C8: every result of every returned sequence has a detail exactly when   *)
(* it is not passed.                                                       *)
C8_DetailIffFailed ==
    pc = "returned" =>
      \A k \in 1..Len(results) :
        (results[k].detail.kind # "None") <=> ~results[k].passed

C8_Witness ==
    /\ pc = "returned"
    /\ \E k \in ResultsOf("row_count") : results[k].passed
    /\ \E k \in ResultsOf("coverage") : ~results[k].passed
    /\ \E k \in ResultsOf("method") : ~results[k].passed


\* position of a per-row check inside one pass of the loop body
Rank(check) ==
    CASE check = "empty_values" -> 0
      [] check = "uniqueness" -> 1
      [] check = "method" -> 2
      [] check = "path" -> 3

\* after the passing structure result: per-row failures in ascending row
\* number and check order, then row count, coverage and extras, once each
FullRunShape ==
    LET n == Len(results)
        s == CHOOSE k \in ResultsOf("structure") : TRUE
    IN /\ n >= s + 3
       /\ results[n - 2].name.check = "row_count"
       /\ results[n - 1].name.check = "coverage"
       /\ results[n].name.check = "extras"
       /\ \A c \in AggregateChecks : Cardinality(ResultsOf(c)) = 1
       /\ \A k \in (s + 1)..(n - 3) :
            /\ results[k].name.check \in PerRowChecks
            /\ ~results[k].passed
       /\ \A k \in (s + 1)..(n - 4) :
            \/ results[k].name.row < results[k + 1].name.row
            \/ /\ results[k].name.row = results[k + 1].name.row
               /\ Rank(results[k].name.check) < Rank(results[k + 1].name.check)

(* C9 as stated: in every run where the structure check passes, the        *)
(* returned sequence holds, after the passing structure result, the        *)
(* per-row failures in order and then row count, coverage and extras as    *)
(* its last three elements, whatever the reference table contains.         *)
C9_NoShortCircuitAfterStructure ==
    (pc = "returned" /\ StructurePassed) => FullRunShape

(* C9 as amended: the same, in every run where the structure check passes  *)
(* and every reference data row has at least one cell.                     *)
C9_NoShortCircuitGivenReferenceCells ==
    (pc = "returned" /\ StructurePassed /\ ReferenceRowsHaveCells) => FullRunShape

C9_Witness ==
    /\ pc = "returned"
    /\ StructurePassed
    /\ ReferenceRowsHaveCells
    /\ Len(test_data) = 3
    /\ ResultsAt("empty_values", 2) # {}
    /\ ResultsAt("method", 3) # {} /\ ResultsAt("path", 3) # {}
    /\ ResultsAt("uniqueness", 4) # {} /\ ResultsAt("method", 4) # {}
    /\ Len(results) = 12
    /\ FullRunShape

====
